---- MODULE Spec2Model ----
(***************************************************************************)
(* A model of the CUNY schedule-builder client of src/check.py.            *)
(*                                                                         *)
(* The client is single threaded.  Its control position is pc: "new"       *)
(* before construction, the label of the _get/_post call in progress       *)
(* while an operation runs, "idle" between operations, "dead" when         *)
(* construction raised (no client object exists) and "exited" when the     *)
(* interpreter was terminated by exit().  Every HTTP attempt is one step:  *)
(* either it raises a RequestException (TransportFail) or it returns a     *)
(* response, and then the step runs the code that follows the call up to   *)
(* the next _get/_post call, the return or the raise.                      *)
(*                                                                         *)
(* Python dicts are functions whose domain is the set of keys present.     *)
(*                                                                         *)
(* Spec is the construction and the _get_term calls, SpecClass the         *)
(* class-data operations of a constructed client, SpecMain the __main__    *)
(* block, and SpecTime and SpecWindow the calls of _build_time and         *)
(* _nWindow.                                                               *)
(***************************************************************************)
EXTENDS Integers, Sequences, FiniteSets, TLC

VARIABLES
    pc,               \* control position (see above)
    op,               \* the public operation in progress or last finished
    outcome,          \* "none", "returned", "raised" or "exited"
    err,              \* the exception that ended the last operation, or "none"
    attempts,         \* HTTP attempts made by the _get/_post call in progress, or
                      \* by the one that ended the operation when it raised
    markers,          \* responses holding the expiry marker seen by the operation
    calls,            \* the _get/_post calls begun by the operation, in order
    cookies,          \* self.cookies
    session_cookies,  \* local of _login (line 100)
    s6_cookies,       \* s6_response.cookies of _login (line 127)
    portalDown,       \* the current client's _login saw the "service down" Location
    terms,            \* self.terms: None or Some(mapping)
    result,           \* value returned by the last operation
    term,             \* arguments of get_class_data / get_enrollment_status / try_enroll
    course_names,     \* (course_names, colleges and parameters until their last
                      \* read, lines 303-310)
    course_codes,
    colleges,         \* local course_college_map of get_class_data (line 297)
    parameters,       \* query parameters of the class-data request being built or sent
    doc,              \* block elements of the class-data response, document order
    idx,              \* number of blocks the loop of get_class_data has finished
    class_data,       \* records built so far
    recpos,           \* for each record of class_data, the position in doc of its block
    enrollLog,        \* for each perform-action response: block position (0 for the
                      \* caller's try_enroll), status, "Failed" in the text, result
    statusLog,        \* for each getEnrollmentState response: block position (0 for
                      \* the caller's get_enrollment_status), result
    time,             \* time.time() at the call of _nWindow, in seconds
    timeblock_ids,    \* _build_time's list of timeblock ids
    timeblocks,       \* _build_time's map from id to the attributes of the timeblock
    hour_12,          \* _build_time's hour_12 argument
    page_json,        \* the structured data of the criteria page last parsed
    main_terms,       \* the driver's terms, as _get_term returned it
    main_order,       \* the keys of main_terms in the order of terms.items()
    main_pos,         \* number of terms the driver's loop has finished
    fetched           \* the term of each get_class_data call the driver made

netVars == <<attempts, markers, calls>>
loginVars == <<cookies, session_cookies, s6_cookies, portalDown>>
cdVars == <<term, course_names, course_codes, colleges, parameters, doc, idx, class_data, recpos, enrollLog, statusLog>>
fnVars == <<time, timeblock_ids, timeblocks, hour_12>>
mainVars == <<page_json, main_terms, main_order, main_pos, fetched>>
vars == <<pc, op, outcome, err, netVars, loginVars, terms, result, cdVars, fnVars, mainVars>>

----------------------------------------------------------------------------
(* Python values *)

None == << >>
Some(v) == <<v>>

EmptyDict == [k \in {} |-> ""]

\* dict.get(key, default)
Get(d, k, default) == IF k \in DOMAIN d THEN d[k] ELSE default

\* d.update(new): union, new values override old ones
Update(d, new) == new @@ d

\* bool(x) of an attribute holding None or a dict
Truthy(x) == x # None /\ DOMAIN x[1] # {}

\* _nWindow and _build_time have not been called
NotCalled ==
    /\ time = 0
    /\ timeblock_ids = << >>
    /\ timeblocks = EmptyDict
    /\ hour_12 = TRUE

\* the driver is not running
NoDriver ==
    /\ page_json = EmptyDict
    /\ main_terms = EmptyDict
    /\ main_order = << >>
    /\ main_pos = 0
    /\ fetched = << >>

----------------------------------------------------------------------------
(* Transport: _get and _post under backoff.on_exception(max_tries=3) *)

max_tries == 3

ExhaustedLate(n) == n > max_tries

\* backoff gives up, and re-raises, when the number of tries reaches max_tries
Exhausted(n) == n = max_tries

\* The _get/_post calls of _login, by the step that makes them
LoginLabels == {"_get_session_id", "s1", "s2", "s3", "s4", "s5", "s6", "s7"}

\* the response arrived and the operation goes on to its next _get/_post call
Goto(label) ==
    /\ pc' = label
    /\ calls' = Append(calls, label)
    /\ attempts' = 0
    /\ UNCHANGED <<outcome, err, result, markers>>

\* an exception leaves the operation: nothing in the client catches it
Raise(kind) ==
    /\ pc' = IF op = "construct" THEN "dead" ELSE "idle"
    /\ outcome' = "raised"
    /\ err' = kind
    /\ attempts' = attempts + 1
    /\ UNCHANGED <<result, calls, markers>>

\* the operation returns to its caller
Return(v) ==
    /\ pc' = "idle"
    /\ outcome' = "returned"
    /\ err' = "none"
    /\ result' = v
    /\ attempts' = 0
    /\ UNCHANGED <<calls, markers>>

\* _check_session_text found the marker: exit(0) terminates the interpreter
Exit ==
    /\ pc' = "exited"
    /\ outcome' = "exited"
    /\ err' = "SystemExit"
    /\ markers' = markers + 1
    /\ attempts' = attempts + 1
    /\ UNCHANGED <<result, calls>>

\* the caller starts an operation whose first _get/_post call is label
StartCall(name, label) ==
    /\ op' = name
    /\ pc' = label
    /\ calls' = <<label>>
    /\ attempts' = 0
    /\ markers' = 0
    /\ outcome' = "none"
    /\ err' = "none"
    /\ result' = None

TransportFailAgain(labels) ==
    /\ pc \in labels
    /\ attempts' = attempts + 1
    /\ UNCHANGED <<pc, outcome, err, result, calls, markers>>
    /\ UNCHANGED <<op, loginVars, terms, cdVars, fnVars, mainVars>>

\* One HTTP attempt of the call in progress raises a RequestException
\* (connection error, timeout, or a 4xx/5xx status through raise_for_status).
\* backoff retries it until max_tries attempts were made, then re-raises.
TransportFail(labels) ==
    /\ pc \in labels
    /\ IF Exhausted(attempts + 1)
         THEN Raise("RequestException")
         ELSE /\ attempts' = attempts + 1
              /\ UNCHANGED <<pc, outcome, err, result, calls, markers>>
    /\ UNCHANGED <<op, loginVars, terms, cdVars, fnVars, mainVars>>

\* The expiry marker of _check_session_text
Marker == "Oops, you must log into this application before loading that link."

\* _check_session_text(text) terminates the process when text holds the marker.
\* A body is modelled by its kind; kind "expired" is a body holding the marker.
SessionExpired(body) == body.kind = "expired"

----------------------------------------------------------------------------
(* Session cookies *)

CookieNames == {"JSESSIONID", "PS_TOKEN"}

\* The cookies a response can set: any subset of the names; the value of a
\* cookie tells which request set it.
CookieJars(tag) == UNION {[S -> {tag}] : S \in SUBSET CookieNames}

\* The Location value that announces that the portal is down (line 106)
PortalDownUrl == "http://portaldown.cuny.edu/cunyfirst"

\* headers.get('Location') of a response: "absent" when the header is missing
Locations == {"absent", PortalDownUrl, "https://ssologin.cuny.edu/next"}

----------------------------------------------------------------------------
(* Terms *)

TermIds == {"1259", "1262"}

\* One entry of the structured data of the criteria page: name and
\* enrollable are both optional.
RawTermData ==
    {n @@ e : n \in {EmptyDict, [name |-> "2025 Fall Term"]},
              e \in {EmptyDict, [enrollable |-> TRUE], [enrollable |-> FALSE]}}

RawTermJson == UNION {[S -> RawTermData] : S \in SUBSET TermIds}

\* The bodies the criteria page can have
TermBodies ==
    {[kind |-> "expired"], [kind |-> "nomarker"], [kind |-> "badjson"]}
    \cup {[kind |-> "ok", json |-> j] : j \in RawTermJson}

\* lines 231-236
term_map(term_json) ==
    [t \in DOMAIN term_json |->
        [name |-> Get(term_json[t], "name", "Unknown Term"),
         enrollable |-> Get(term_json[t], "enrollable", FALSE)]]

----------------------------------------------------------------------------
(* Construction: __init__, _setup, _login and the first _get_term *)

\* __init__ up to the _get of _get_session_id
Construct ==
    /\ pc = "new"
    /\ StartCall("construct", "_get_session_id")
    /\ cookies' = EmptyDict
    /\ terms' = None
    /\ UNCHANGED <<session_cookies, s6_cookies, portalDown, cdVars, fnVars, mainVars>>

\* _login returned: _setup goes on with self.terms = self._get_term()
LoginReturns ==
    IF Truthy(terms)
      THEN Return(terms[1]) /\ UNCHANGED terms
      ELSE Goto("_get_term") /\ UNCHANGED terms

\* line 95-96, 100
SessionId ==
    /\ pc = "_get_session_id"
    /\ \E c \in CookieJars("sid"):
        /\ session_cookies' = c
        /\ Goto("s1")
    /\ UNCHANGED <<op, cookies, s6_cookies, portalDown, terms, cdVars, fnVars, mainVars>>

\* lines 103-111: step 1, the early exit, and the Location lookup of step 2
Step1 ==
    /\ pc = "s1"
    /\ \E c \in CookieJars("s1"), loc \in Locations:
        /\ cookies' = Update(cookies, c)
        /\ IF loc = PortalDownUrl
             THEN portalDown' = TRUE /\ LoginReturns
             ELSE /\ UNCHANGED <<portalDown, terms>>
                  /\ IF loc = "absent" THEN Raise("KeyError") ELSE Goto("s2")
    /\ UNCHANGED <<op, session_cookies, s6_cookies, cdVars, fnVars, mainVars>>

\* lines 111-115
Step2 ==
    /\ pc = "s2"
    /\ \E c \in CookieJars("s2"):
        /\ cookies' = Update(cookies, c)
        /\ Goto("s3")
    /\ UNCHANGED <<op, session_cookies, s6_cookies, portalDown, terms, cdVars, fnVars, mainVars>>

\* lines 115-119: the credentials POST and the Location lookup of step 4
Step3 ==
    /\ pc = "s3"
    /\ \E c \in CookieJars("s3"), loc \in Locations \ {PortalDownUrl}:
        /\ cookies' = Update(cookies, c)
        /\ IF loc = "absent" THEN Raise("KeyError") ELSE Goto("s4")
    /\ UNCHANGED <<op, session_cookies, s6_cookies, portalDown, terms, cdVars, fnVars, mainVars>>

Step4Merges ==
    /\ pc = "s4"
    /\ \E c \in CookieJars("s4"):
        /\ cookies' = Update(cookies, c)
        /\ Goto("s5")
    /\ UNCHANGED <<op, session_cookies, s6_cookies, portalDown, terms, cdVars, fnVars, mainVars>>

Step5SkipsStep6 ==
    /\ pc = "s5"
    /\ \E c \in CookieJars("s5"):
        /\ cookies' = Update(cookies, c)
        /\ Goto("s7")
    /\ UNCHANGED <<op, session_cookies, s6_cookies, portalDown, terms, cdVars, fnVars, mainVars>>

\* lines 119-123: the session is replaced
Step4 ==
    /\ pc = "s4"
    /\ \E c \in CookieJars("s4"):
        /\ cookies' = c
        /\ Goto("s5")
    /\ UNCHANGED <<op, session_cookies, s6_cookies, portalDown, terms, cdVars, fnVars, mainVars>>

\* lines 123-127
Step5 ==
    /\ pc = "s5"
    /\ \E c \in CookieJars("s5"):
        /\ cookies' = Update(cookies, c)
        /\ Goto("s6")
    /\ UNCHANGED <<op, session_cookies, s6_cookies, portalDown, terms, cdVars, fnVars, mainVars>>

\* lines 127-131
Step6 ==
    /\ pc = "s6"
    /\ \E c \in CookieJars("s6"):
        /\ cookies' = Update(cookies, c)
        /\ s6_cookies' = c
        /\ Goto("s7")
    /\ UNCHANGED <<op, session_cookies, portalDown, terms, cdVars, fnVars, mainVars>>

Step7Merges ==
    /\ pc = "s7"
    /\ \E c \in CookieJars("s7"):
        /\ cookies' = Update(cookies, c)
        /\ LoginReturns
    /\ UNCHANGED <<op, session_cookies, s6_cookies, portalDown, cdVars, fnVars, mainVars>>

\* lines 131-135, then _setup's call of _get_term
Step7 ==
    /\ pc = "s7"
    /\ \E c \in CookieJars("s7"):
        /\ cookies' = Update(Update(s6_cookies, session_cookies), c)
        /\ LoginReturns
    /\ UNCHANGED <<op, session_cookies, s6_cookies, portalDown, cdVars, fnVars, mainVars>>

----------------------------------------------------------------------------
(* _get_term *)

\* lines 221-226: the caller's _get_term, answered from self.terms when that
\* is truthy, and by a request otherwise
GetTerm ==
    /\ pc = "idle"
    /\ IF Truthy(terms)
         THEN /\ op' = "_get_term"
              /\ pc' = "idle"
              /\ outcome' = "returned"
              /\ err' = "none"
              /\ result' = terms[1]
              /\ calls' = << >>
              /\ attempts' = 0
              /\ markers' = 0
         ELSE StartCall("_get_term", "_get_term")
    /\ UNCHANGED <<loginVars, terms, cdVars, fnVars, mainVars>>

\* lines 226-238, for the call of _setup (line 49 stores the mapping) and
\* for the caller's call (nothing is stored)
TermResponse ==
    /\ pc = "_get_term"
    /\ \E body \in TermBodies:
        /\ IF SessionExpired(body) THEN Exit /\ UNCHANGED terms
           ELSE IF body.kind = "nomarker" THEN Raise("IndexError") /\ UNCHANGED terms
           ELSE IF body.kind = "badjson" THEN Raise("JSONDecodeError") /\ UNCHANGED terms
           ELSE IF op = "construct"
             THEN terms' = Some(term_map(body.json)) /\ Return("client")
             ELSE Return(term_map(body.json)) /\ UNCHANGED terms
    /\ UNCHANGED <<op, loginVars, cdVars, fnVars, mainVars>>

----------------------------------------------------------------------------
(* The client's life: construction, then any number of _get_term calls *)

LifeLabels == LoginLabels \cup {"_get_term"}

LifeFail == TransportFail(LifeLabels)

Init ==
    /\ pc = "new"
    /\ op = "none"
    /\ outcome = "none"
    /\ err = "none"
    /\ attempts = 0
    /\ markers = 0
    /\ calls = << >>
    /\ cookies = EmptyDict
    /\ session_cookies = EmptyDict
    /\ s6_cookies = EmptyDict
    /\ portalDown = FALSE
    /\ terms = None
    /\ result = << >>
    /\ term = ""
    /\ course_names = << >>
    /\ course_codes = << >>
    /\ colleges = EmptyDict
    /\ parameters = EmptyDict
    /\ doc = << >>
    /\ idx = 0
    /\ class_data = << >>
    /\ recpos = << >>
    /\ enrollLog = << >>
    /\ statusLog = << >>
    /\ NotCalled
    /\ NoDriver

Next ==
    \/ Construct
    \/ SessionId
    \/ Step1
    \/ Step2
    \/ Step3
    \/ Step4
    \/ Step5
    \/ Step6
    \/ Step7
    \/ GetTerm
    \/ TermResponse
    \/ LifeFail

Spec == Init /\ [][Next]_vars

----------------------------------------------------------------------------
(* Class data: get_class_data, _get_colleges, get_enrollment_status and    *)
(* try_enroll, on a constructed client                                     *)

MaxNames == 2
MaxEntries == 2
MaxBlocks == 2

Range(f) == {f[i] : i \in DOMAIN f}

SeqsUpTo(S, n) == UNION {[1..k -> S] : k \in 0..n}

CourseIds == {"CSCI 101", "MATH 201"}

\* The course_names and course_codes arguments of get_class_data
NameLists == SeqsUpTo(CourseIds, MaxNames) \ {<< >>}
CodeLists == {<<"12345">>, <<"67890", "12345">>}

\* time.time() at the call of _nWindow
Clock == {12000}

nWindowNoWrap(now) ==
    LET t == now \div 60
    IN [t |-> t, e |-> (t % 3) + (t % 39) + (t % 42)]

\* lines 87-90
nWindow(now) ==
    LET t == (now \div 60) % 1000
    IN [t |-> t, e |-> (t % 3) + (t % 39) + (t % 42)]

\* The entries of a string-to-filter response: an entry carries cnKey and
\* va, or no cnKey at all.
Entries ==
    {[cnKey |-> "CSCI 101", va |-> "LAG01"], [cnKey |-> "CSCI 101", va |-> "QNS01"],
     [cnKey |-> "MATH 201", va |-> "LAG01"], [msg |-> "no match"]}

CollegeBodies ==
    {[kind |-> "expired"]}
    \cup {[kind |-> "ok", json |-> j] : j \in SeqsUpTo(Entries, MaxEntries)}

\* line 208: the dict comprehension; a later entry overrides an earlier
\* one with the same cnKey
RECURSIVE course_college_map(_)
course_college_map(json) ==
    IF json = << >> THEN EmptyDict
    ELSE LET n == Len(json)
             course == json[n]
             rest == course_college_map(SubSeq(json, 1, n - 1))
         IN IF "cnKey" \in DOMAIN course
              THEN Update(rest, (course.cnKey :> course.va))
              ELSE rest

\* f"course_{index}_0" and f"va_{index}_0"; enumerate counts from 0
CourseParam(index) == "course_" \o ToString(index) \o "_0"
VaParam(index) == "va_" \o ToString(index) \o "_0"

RECURSIVE AddCoursesDense(_, _, _, _)
AddCoursesDense(params, names, map, i) ==
    IF i > Len(names) THEN params
    ELSE IF names[i] \notin DOMAIN map
      THEN AddCoursesDense(params, names, map, i + 1)
      ELSE LET index == Cardinality({k \in DOMAIN params : k \notin {"term", "t", "e"}}) \div 2
           IN AddCoursesDense(
                Update(Update(params, (CourseParam(index) :> names[i])),
                       (VaParam(index) :> map[names[i]])),
                names, map, i + 1)

\* lines 303-308: the loop over enumerate(course_names), from position i
\* (1-based in the model, so that index = i - 1)
RECURSIVE AddCourses(_, _, _, _)
AddCourses(params, names, map, i) ==
    IF i > Len(names) THEN params
    ELSE IF names[i] \notin DOMAIN map
      THEN AddCourses(params, names, map, i + 1)
      ELSE AddCourses(
             Update(Update(params, (CourseParam(i - 1) :> names[i])),
                    (VaParam(i - 1) :> map[names[i]])),
             names, map, i + 1)

\* Attribute texts of a block, and int() of them: int raises ValueError on
\* the texts outside IntTexts
IntTexts == {"0", "2", "4", "5", "30", "540", "615", "720", "780"}
int(text) ==
    CASE text = "0" -> 0
      [] text = "2" -> 2
      [] text = "4" -> 4
      [] text = "5" -> 5
      [] text = "30" -> 30
      [] text = "540" -> 540
      [] text = "615" -> 615
      [] text = "720" -> 720
      [] text = "780" -> 780

\* int(course_section.attrs.get(name, 0)) parses
Parses(attrs, name) == name \notin DOMAIN attrs \/ attrs[name] \in IntTexts
IntAttr(attrs, name) == IF name \in DOMAIN attrs THEN int(attrs[name]) ELSE 0

SeatAttrs == <<"wc", "ws", "me", "os">>

\* The seat attributes a block can carry
AttrCases ==
    {[wc |-> "5", ws |-> "2", me |-> "30", os |-> "0"],
     [wc |-> "5", ws |-> "0", me |-> "30", os |-> "4"],
     [wc |-> "5", ws |-> "0", me |-> "30", os |-> "0"],
     EmptyDict,
     [wc |-> "N/A", ws |-> "0", me |-> "30", os |-> "4"],
     [wc |-> "5", ws |-> "", me |-> "30", os |-> "0"],
     [wc |-> "5", ws |-> "2", me |-> "1.5", os |-> "0"],
     [wc |-> "5", ws |-> "0", os |-> "x"]}

\* The block elements of a class-data document: key is the section code,
\* course the key of the course element above the block.
Blocks ==
    {[key |-> "12345", course |-> "CSCI 101", attrs |-> a] : a \in AttrCases}
    \cup {[key |-> "67890", course |-> "CSCI 101", attrs |-> EmptyDict]}

ClassBodies ==
    {[kind |-> "expired"]}
    \cup {[kind |-> "ok", blocks |-> d] : d \in SeqsUpTo(Blocks, MaxBlocks)}

\* lines 329-346
SeatsUnavailableOnly(attrs) ==
    IF \A i \in 1..4: Parses(attrs, SeatAttrs[i])
      THEN LET waitlist_cap == IntAttr(attrs, "wc")
               waitlist_students == IntAttr(attrs, "ws")
               max_enrollment == IntAttr(attrs, "me")
               open_seats_val == IntAttr(attrs, "os")
           IN [waitlist |-> ToString(waitlist_cap - waitlist_students) \o "/" \o ToString(waitlist_cap),
               seats |-> ToString(max_enrollment - open_seats_val) \o "/" \o ToString(max_enrollment),
               available |-> IF open_seats_val > 0 THEN 1 ELSE 0]
      ELSE [waitlist |-> "Err/Err", seats |-> "Err/Err", available |-> -1]

Seats(attrs) ==
    IF \A i \in 1..4: Parses(attrs, SeatAttrs[i])
      THEN LET waitlist_cap == IntAttr(attrs, "wc")
               waitlist_students == IntAttr(attrs, "ws")
               max_enrollment == IntAttr(attrs, "me")
               open_seats_val == IntAttr(attrs, "os")
               waitlist_available == waitlist_cap - waitlist_students
               seats_available == open_seats_val
               is_open == waitlist_students > 0 \/ seats_available > 0
           IN [waitlist |-> ToString(waitlist_available) \o "/" \o ToString(waitlist_cap),
               seats |-> ToString(max_enrollment - seats_available) \o "/" \o ToString(max_enrollment),
               available |-> IF is_open THEN 1 ELSE 0]
      ELSE [waitlist |-> "Err/Err", seats |-> "Err/Err", available |-> -1]

\* lines 365-376 (the fields the time text, college and instructor are left
\* to the document and are not modelled)
Record(block, enrolled) ==
    LET s == Seats(block.attrs)
    IN [course_number |-> block.course,
        section_code |-> block.key,
        term_name |-> terms[1][term].name,
        waitlist |-> s.waitlist,
        seats |-> s.seats,
        available |-> s.available,
        enrolled |-> enrolled]

\* line 321
Wanted(block) == block.key \in Range(course_codes)

\* lines 319-376: the loop over the blocks, from block i + 1 on, as far as
\* it runs without a request.  It stops at the end of the document
\* ("done"), at an available block, whose enrollment status is asked next
\* ("ask"), or at the KeyError of self.terms[term] ("KeyError").
RECURSIVE Scan(_, _, _, _)
Scan(d, i, cd, rp) ==
    IF i = Len(d) THEN [kind |-> "done", idx |-> i, class_data |-> cd, recpos |-> rp]
    ELSE LET block == d[i + 1]
         IN IF ~Wanted(block) THEN Scan(d, i + 1, cd, rp)
            ELSE IF Seats(block.attrs).available = 1
              THEN [kind |-> "ask", idx |-> i, class_data |-> cd, recpos |-> rp]
            ELSE IF term \notin DOMAIN terms[1]
              THEN [kind |-> "KeyError", idx |-> i, class_data |-> cd, recpos |-> rp]
            ELSE Scan(d, i + 1, Append(cd, Record(block, FALSE)), Append(rp, i + 1))

\* the loop goes on from block i + 1 with the records cd
Loop(d, i, cd, rp) ==
    LET r == Scan(d, i, cd, rp)
    IN /\ idx' = r.idx
       /\ class_data' = r.class_data
       /\ recpos' = r.recpos
       /\ CASE r.kind = "done" -> Return(r.class_data)
            [] r.kind = "ask" -> Goto("get_enrollment_status")
            [] r.kind = "KeyError" -> Raise("KeyError")

EmitNotEnrolled(enrolled) ==
    IF term \notin DOMAIN terms[1]
      THEN Raise("KeyError") /\ UNCHANGED <<idx, class_data, recpos>>
      ELSE Loop(doc, idx + 1, Append(class_data, Record(doc[idx + 1], FALSE)),
                Append(recpos, idx + 1))

\* the loop appends the record of block idx + 1, then goes on
Emit(enrolled) ==
    IF term \notin DOMAIN terms[1]
      THEN Raise("KeyError") /\ UNCHANGED <<idx, class_data, recpos>>
      ELSE Loop(doc, idx + 1, Append(class_data, Record(doc[idx + 1], enrolled)),
                Append(recpos, idx + 1))

\* The term argument of the calls.  The driver passes the keys of the
\* mapping its own _get_term call returned (lines 406-420); when self.terms
\* is empty that mapping is fetched anew and is not stored, so the term
\* need not be a key of self.terms.
CallTerms == {"1259"}

\* the locals of an earlier get_class_data are gone
NoClassData ==
    /\ course_codes' = << >>
    /\ colleges' = EmptyDict
    /\ parameters' = EmptyDict
    /\ doc' = << >>
    /\ idx' = 0
    /\ class_data' = << >>
    /\ recpos' = << >>
    /\ enrollLog' = << >>
    /\ statusLog' = << >>

\* lines 289-297: get_class_data up to the POST of _get_colleges
GetClassData ==
    /\ pc = "idle"
    /\ \E t \in CallTerms, names \in NameLists, codes \in CodeLists, now \in Clock:
        /\ term' = t
        /\ course_names' = names
        /\ course_codes' = codes
        /\ parameters' = Update([term |-> t], nWindow(now))
    /\ colleges' = EmptyDict
    /\ doc' = << >>
    /\ idx' = 0
    /\ class_data' = << >>
    /\ recpos' = << >>
    /\ enrollLog' = << >>
    /\ statusLog' = << >>
    /\ StartCall("get_class_data", "_get_colleges")
    /\ UNCHANGED <<loginVars, terms, fnVars, mainVars>>

\* lines 206-211 and 297-310
CollegesResponse ==
    /\ pc = "_get_colleges"
    /\ \E body \in CollegeBodies:
        IF SessionExpired(body) THEN Exit /\ UNCHANGED <<colleges, parameters>>
        ELSE LET map == course_college_map(body.json)
             IN /\ colleges' = map
                /\ IF map = EmptyDict
                     THEN Return(<< >>) /\ UNCHANGED parameters
                     ELSE /\ parameters' = AddCourses(parameters, course_names, map, 1)
                          /\ Goto("class_data")
    /\ UNCHANGED <<op, fnVars, mainVars, loginVars, terms, term, course_names, course_codes, doc, idx,
                   class_data, recpos, enrollLog, statusLog>>

\* lines 310-319, and the loop up to its first request
ClassDataResponse ==
    /\ pc = "class_data"
    /\ \E body \in ClassBodies:
        IF SessionExpired(body)
          THEN Exit /\ UNCHANGED <<doc, idx, class_data, recpos, course_names, colleges,
                                    parameters>>
          ELSE /\ doc' = body.blocks
               /\ Loop(body.blocks, 0, << >>, << >>)
               /\ course_names' = << >>
               /\ colleges' = EmptyDict
               /\ parameters' = EmptyDict
    /\ UNCHANGED <<op, fnVars, mainVars, loginVars, terms, term, course_codes, enrollLog, statusLog>>

\* The bodies of a getEnrollmentState response: the cnKeys of its cnfs
EnrollmentBodies ==
    {[kind |-> "expired"]}
    \cup {[kind |-> "ok", cnfs |-> c] : c \in SUBSET CourseIds}

\* the caller's get_enrollment_status(term, course_name), lines 246-249
GetEnrollmentStatus ==
    /\ pc = "idle"
    /\ \E name \in CourseIds: course_names' = <<name>>
    /\ \E t \in CallTerms: term' = t
    /\ StartCall("get_enrollment_status", "get_enrollment_status")
    /\ NoClassData
    /\ UNCHANGED <<loginVars, terms, fnVars, mainVars>>

\* lines 249-254; for the call of get_class_data, lines 355-359 as well
EnrollmentResponse ==
    /\ pc = "get_enrollment_status"
    /\ \E body \in EnrollmentBodies:
        IF SessionExpired(body)
          THEN Exit /\ UNCHANGED <<idx, class_data, recpos, statusLog>>
        ELSE IF op = "get_enrollment_status"
          THEN LET enrolled == course_names[1] \in body.cnfs
               IN /\ statusLog' = Append(statusLog, [pos |-> 0, enrolled |-> enrolled])
                  /\ Return(enrolled)
                  /\ UNCHANGED <<idx, class_data, recpos>>
        ELSE LET enrolled == doc[idx + 1].course \in body.cnfs
             IN /\ statusLog' = Append(statusLog, [pos |-> idx + 1, enrolled |-> enrolled])
                /\ IF enrolled
                     THEN Loop(doc, idx + 1, class_data, recpos)
                     ELSE Goto("enroll_options") /\ UNCHANGED <<idx, class_data, recpos>>
    /\ UNCHANGED <<op, fnVars, mainVars, loginVars, terms, term, course_names, course_codes, colleges,
                   parameters, doc, enrollLog>>

TryEnrollSkipsOptions ==
    /\ pc = "idle"
    /\ \E t \in CallTerms: term' = t
    /\ course_names' = << >>
    /\ StartCall("try_enroll", "perform_action")
    /\ NoClassData
    /\ UNCHANGED <<loginVars, terms, fnVars, mainVars>>

\* the caller's try_enroll(term, selection_key, selection_va), lines 256-265
TryEnroll ==
    /\ pc = "idle"
    /\ \E t \in CallTerms: term' = t
    /\ course_names' = << >>
    /\ StartCall("try_enroll", "enroll_options")
    /\ NoClassData
    /\ UNCHANGED <<loginVars, terms, fnVars, mainVars>>

\* lines 265-279: the response of enroll-options is not looked at
EnrollOptionsResponse ==
    /\ pc = "enroll_options"
    /\ Goto("perform_action")
    /\ UNCHANGED <<op, loginVars, terms, cdVars, fnVars, mainVars>>

\* The statuses raise_for_status lets through, and whether the body holds "Failed"
PerformStatuses == {200, 204, 302}

\* line 281
Enrolled(status_code, failed) == status_code = 200 /\ ~failed

\* lines 279-281; for the call of get_class_data, lines 359-376 as well
PerformResponse ==
    /\ pc = "perform_action"
    /\ \E status_code \in PerformStatuses, failed \in BOOLEAN:
        LET ok == Enrolled(status_code, failed)
            entry == [pos |-> IF op = "try_enroll" THEN 0 ELSE idx + 1,
                      status_code |-> status_code, failed |-> failed, ok |-> ok]
        IN /\ enrollLog' = Append(enrollLog, entry)
           /\ IF op = "try_enroll"
                THEN Return(ok) /\ UNCHANGED <<idx, class_data, recpos>>
                ELSE Emit(ok)
    /\ UNCHANGED <<op, fnVars, mainVars, loginVars, terms, term, course_names, course_codes, colleges,
                   parameters, doc, statusLog>>

ClassLabels ==
    {"_get_colleges", "class_data", "get_enrollment_status", "enroll_options",
     "perform_action"}

ClassFail == TransportFail(ClassLabels)

\* A constructed client: the cookies of a completed login, and the term
\* mapping that _setup stored (an empty one, or one with every term).
Constructed ==
    /\ pc = "idle"
    /\ op = "construct"
    /\ outcome = "returned"
    /\ err = "none"
    /\ attempts = 1
    /\ markers = 0
    /\ calls = <<"_get_session_id", "s1", "s2", "s3", "s4", "s5", "s6", "s7", "_get_term">>
    /\ cookies = [JSESSIONID |-> "s7", PS_TOKEN |-> "s6"]
    /\ session_cookies = EmptyDict
    /\ s6_cookies = [PS_TOKEN |-> "s6"]
    /\ portalDown = FALSE
    /\ terms \in {Some(EmptyDict),
                  Some([t \in TermIds |-> [name |-> "2025 Fall Term", enrollable |-> TRUE]])}
    /\ result = "client"
    /\ term = ""
    /\ course_names = << >>
    /\ course_codes = << >>
    /\ colleges = EmptyDict
    /\ parameters = EmptyDict
    /\ doc = << >>
    /\ idx = 0
    /\ class_data = << >>
    /\ recpos = << >>
    /\ enrollLog = << >>
    /\ statusLog = << >>
    /\ NoDriver

InitClass == Constructed /\ NotCalled

NextClass ==
    \/ GetClassData
    \/ CollegesResponse
    \/ ClassDataResponse
    \/ GetEnrollmentStatus
    \/ EnrollmentResponse
    \/ TryEnroll
    \/ EnrollOptionsResponse
    \/ PerformResponse
    \/ ClassFail

SpecClass == InitClass /\ [][NextClass]_vars

----------------------------------------------------------------------------
(* _build_time and _get_day *)

MaxIds == 3

TimeblockKeys == {"tb1", "tb2", "tb3"}

\* The attributes a timeblock can carry: day, t1 and t2 are all optional
TimeblockCases ==
    {[day |-> "1", t1 |-> "540", t2 |-> "615"],
     [day |-> "3", t1 |-> "540", t2 |-> "615"],
     [day |-> "8", t1 |-> "540", t2 |-> "615"],
     [day |-> "2", t1 |-> "720", t2 |-> "780"],
     [t1 |-> "0"],
     [day |-> "1", t1 |-> "9:00", t2 |-> "615"]}

\* The timeblock_ids and timeblocks arguments
IdLists == SeqsUpTo(TimeblockKeys, MaxIds)
TimeblockMaps == UNION {[S -> TimeblockCases] : S \in SUBSET TimeblockKeys}

\* lines 137-147
get_day(day) ==
    CASE day = "1" -> "Mon"
      [] day = "2" -> "Tue"
      [] day = "3" -> "Wed"
      [] day = "4" -> "Thu"
      [] day = "5" -> "Fri"
      [] day = "6" -> "Sat"
      [] day = "7" -> "Sun"
      [] OTHER -> "Unk"

\* the format spec :02d
Pad2(n) == IF n \in 0..9 THEN "0" \o ToString(n) ELSE ToString(n)

\* lines 160-181: the text of the range from t1 to t2
time_str(t1, t2, h12) ==
    LET h1 == t1 \div 60
        m1 == t1 % 60
        h2 == t2 \div 60
        m2 == t2 % 60
        a1 == IF h1 < 12 THEN "AM" ELSE "PM"
        a2 == IF h2 < 12 THEN "AM" ELSE "PM"
        h1_12 == IF h1 % 12 = 0 THEN 12 ELSE h1 % 12
        h2_12 == IF h2 % 12 = 0 THEN 12 ELSE h2 % 12
    IN IF h12
         THEN Pad2(h1_12) \o ":" \o Pad2(m1) \o " " \o a1 \o " to "
              \o Pad2(h2_12) \o ":" \o Pad2(m2) \o " " \o a2
         ELSE Pad2(h1) \o ":" \o Pad2(m1) \o " to " \o Pad2(h2) \o ":" \o Pad2(m2)

\* lines 183-185: days_by_time, a dict in insertion order, as the sequence
\* of its items
AddDay(days_by_time, ts, day_abbr) ==
    IF \E k \in DOMAIN days_by_time: days_by_time[k].time_str = ts
      THEN [k \in DOMAIN days_by_time |->
              IF days_by_time[k].time_str = ts
                THEN [days_by_time[k] EXCEPT !.days = Append(@, day_abbr)]
                ELSE days_by_time[k]]
      ELSE Append(days_by_time, [time_str |-> ts, days |-> <<day_abbr>>])

\* lines 153-185: the loop over timeblock_ids, from position i
RECURSIVE GroupDays(_, _, _, _, _)
GroupDays(ids, blocks, h12, days_by_time, i) ==
    IF i > Len(ids) THEN days_by_time
    ELSE IF ids[i] \notin DOMAIN blocks
      THEN GroupDays(ids, blocks, h12, days_by_time, i + 1)
      ELSE LET attrs == blocks[ids[i]]
               day_abbr == get_day(Get(attrs, "day", ""))
               ts == time_str(IntAttr(attrs, "t1"), IntAttr(attrs, "t2"), h12)
           IN GroupDays(ids, blocks, h12, AddDay(days_by_time, ts, day_abbr), i + 1)

\* line 187
day_order == <<"Mon", "Tue", "Wed", "Thu", "Fri", "Sat", "Sun", "Unk">>

DaysAsListed(days) == days

\* line 190: sorted(list(set(days)), key=day_order.index)
SortedDays(days) == SelectSeq(day_order, LAMBDA day: day \in Range(days))

\* sep.join(parts)
RECURSIVE Join(_, _)
Join(parts, sep) ==
    IF parts = << >> THEN ""
    ELSE IF Len(parts) = 1 THEN parts[1]
    ELSE parts[1] \o sep \o Join(Tail(parts), sep)

\* lines 160 and 164: int() raises ValueError for a timeblock of the list
TimesParse(ids, blocks) ==
    \A i \in DOMAIN ids:
        ids[i] \in DOMAIN blocks =>
            (Parses(blocks[ids[i]], "t1") /\ Parses(blocks[ids[i]], "t2"))

\* lines 151-193
build_time(ids, blocks, h12) ==
    LET days_by_time == GroupDays(ids, blocks, h12, << >>, 1)
        time_parts == [k \in DOMAIN days_by_time |->
                         Join(SortedDays(days_by_time[k].days), ", ") \o ": "
                         \o days_by_time[k].time_str]
    IN IF time_parts # << >> THEN Join(time_parts, "\n") ELSE "TBA"

\* a call of _build_time with the arguments at hand
BuildTime ==
    /\ pc = "idle"
    /\ op' = "_build_time"
    /\ IF TimesParse(timeblock_ids, timeblocks)
         THEN /\ outcome' = "returned"
              /\ err' = "none"
              /\ result' = build_time(timeblock_ids, timeblocks, hour_12)
         ELSE /\ outcome' = "raised"
              /\ err' = "ValueError"
              /\ result' = None
    /\ calls' = << >>
    /\ attempts' = 0
    /\ markers' = 0
    /\ UNCHANGED <<pc, loginVars, terms, cdVars, fnVars, mainVars>>

\* a constructed client, and any arguments
InitTime ==
    /\ Constructed
    /\ Truthy(terms)
    /\ time = 0
    /\ timeblock_ids \in IdLists
    /\ timeblocks \in TimeblockMaps
    /\ hour_12 \in BOOLEAN

NextTime == BuildTime

SpecTime == InitTime /\ [][NextTime]_vars

----------------------------------------------------------------------------
(* _nWindow, called at any time *)

MaxTicks == 3100

\* The values of time.time() at a call, whole seconds: up to a minute after
\* the call before, in thirds of a minute, for MaxTicks thirds.  (The
\* result has the period 60000 s, and floor(x / 60) is the same for x and
\* for x without its fraction.)
Times(last) == {clock \in {last + 20 * k : k \in 0..3} : clock <= 20 * MaxTicks}

\* lines 85-90: a call of _nWindow
NWindow ==
    /\ pc = "idle"
    /\ \E clock \in Times(time):
        /\ time' = clock
        /\ result' = nWindow(clock)
    /\ op' = "_nWindow"
    /\ outcome' = "returned"
    /\ err' = "none"
    /\ calls' = << >>
    /\ attempts' = 0
    /\ markers' = 0
    /\ UNCHANGED <<pc, loginVars, terms, cdVars, timeblock_ids, timeblocks, hour_12, mainVars>>

NextWindow == NWindow

SpecWindow == InitClass /\ [][NextWindow]_vars

----------------------------------------------------------------------------
(* The driver: the __main__ block, lines 399-423.  Its steps are the calls *)
(* it makes; a call of the client is taken by its results, which are those *)
(* of the operations above                                                 *)

\* what the driver's steps leave alone
mainFrame == <<op, netVars, result, cdVars, fnVars, session_cookies, s6_cookies, portalDown>>

\* the driver goes on at the statement `label`
MainGoto(label) == pc' = label /\ UNCHANGED <<outcome, err>>

\* an exception that nothing catches ends the process; so does exit()
MainRaise(kind) == pc' = "dead" /\ outcome' = "raised" /\ err' = kind
MainExit == pc' = "exited" /\ outcome' = "exited" /\ err' = "SystemExit"

\* The cookies of a constructed client: none, or those of a login
MainCookies == {EmptyDict, [JSESSIONID |-> "s7", PS_TOKEN |-> "s6"]}

\* the orders in which a dict with the keys S can list them
Orders(S) == {o \in [1..Cardinality(S) -> S] : \A i, j \in DOMAIN o: o[i] = o[j] => i = j}

EnrollableAlways(term_data) == TRUE

\* line 417
Enrollable(term_data) == term_data["enrollable"]

\* line 399: the construction raises (a login step or the criteria page
\* failed), ends the process (session-expiry marker in the criteria page),
\* or gives a client whose self.terms is the mapping of the criteria page
MainConstruct ==
    /\ pc = "new"
    /\ \/ \E kind \in {"RequestException", "KeyError", "IndexError", "JSONDecodeError"}:
            MainRaise(kind) /\ UNCHANGED <<cookies, terms, page_json>>
       \/ MainExit /\ UNCHANGED <<cookies, terms, page_json>>
       \/ \E c \in MainCookies, json \in RawTermJson:
            /\ cookies' = c
            /\ terms' = Some(term_map(json))
            /\ page_json' = json
            /\ MainGoto("main_cookies")
    /\ UNCHANGED <<mainFrame, main_terms, main_order, main_pos, fetched>>

\* lines 401-403
MainCheckCookies ==
    /\ pc = "main_cookies"
    /\ IF cookies = EmptyDict THEN MainExit ELSE MainGoto("main_get_term")
    /\ UNCHANGED <<mainFrame, cookies, terms, mainVars>>

\* line 406 and lines 221-238: terms = cuny_client._get_term(), answered from
\* self.terms when that is truthy and from a new criteria page otherwise
MainGetTerm ==
    /\ pc = "main_get_term"
    /\ IF Truthy(terms)
         THEN /\ main_terms' = terms[1]
              /\ \E o \in Orders(DOMAIN terms[1]): main_order' = o
              /\ MainGoto("main_loop")
              /\ UNCHANGED page_json
         ELSE \/ MainRaise("RequestException") /\ UNCHANGED <<page_json, main_terms, main_order>>
              \/ \E body \in TermBodies:
                    IF SessionExpired(body)
                      THEN MainExit /\ UNCHANGED <<page_json, main_terms, main_order>>
                    ELSE IF body.kind = "nomarker"
                      THEN MainRaise("IndexError") /\ UNCHANGED <<page_json, main_terms, main_order>>
                    ELSE IF body.kind = "badjson"
                      THEN MainRaise("JSONDecodeError")
                           /\ UNCHANGED <<page_json, main_terms, main_order>>
                    ELSE /\ page_json' = body.json
                         /\ main_terms' = term_map(body.json)
                         /\ \E o \in Orders(DOMAIN body.json): main_order' = o
                         /\ MainGoto("main_loop")
    /\ UNCHANGED <<mainFrame, cookies, terms, main_pos, fetched>>

\* lines 416-423: one turn of the loop over terms.items(); get_class_data
\* returns its records, raises, or ends the process
MainLoop ==
    /\ pc = "main_loop"
    /\ IF main_pos = Len(main_order)
         THEN MainGoto("main_notify") /\ UNCHANGED <<main_pos, fetched>>
         ELSE LET term_id == main_order[main_pos + 1]
                  term_data == main_terms[term_id]
              IN IF Enrollable(term_data)
                   THEN /\ fetched' = Append(fetched, term_id)
                        /\ \/ MainGoto("main_loop") /\ main_pos' = main_pos + 1
                           \/ \E kind \in {"RequestException", "KeyError"}:
                                MainRaise(kind) /\ UNCHANGED main_pos
                           \/ MainExit /\ UNCHANGED main_pos
                   ELSE /\ MainGoto("main_loop")
                        /\ main_pos' = main_pos + 1
                        /\ UNCHANGED fetched
    /\ UNCHANGED <<mainFrame, cookies, terms, page_json, main_terms, main_order>>

NextMain ==
    \/ MainConstruct
    \/ MainCheckCookies
    \/ MainGetTerm
    \/ MainLoop

SpecMain == Init /\ [][NextMain]_vars

----------------------------------------------------------------------------
(* Properties *)

NumCalls(label) == Cardinality({i \in DOMAIN calls : calls[i] = label})

\* C1: a response holding the expiry marker is followed by exactly one
\* forced re-login and one retry of the guarded call; a second marker ends
\* the call with a failure raised to the caller.
SessionExpiryRetry ==
    /\ markers <= 2
    /\ markers >= 1 => NumCalls("_get_session_id") = 1
    /\ markers = 2 => outcome = "raised"

\* C2: no operation of the client terminates the process: each one ends by
\* returning a value or by raising an exception to its caller.
CoreNeverTerminatesProcess == outcome \in {"none", "returned", "raised"}

\* C3: one _get or _post call makes at most 3 HTTP attempts: it stays in
\* the call only after a failed attempt and while fewer than 3 attempts were
\* made, a response ends it at once, and a RequestException is raised to
\* the caller by the third attempt only.
TransportAtMostThree ==
    /\ [](attempts <= 3 /\ (pc \in LifeLabels => attempts < 3))
    /\ [][(pc \in LifeLabels /\ pc' = pc) => (attempts' = attempts + 1 /\ attempts' < 3)]_vars
    /\ [][(outcome # "raised" /\ outcome' = "raised" /\ err' = "RequestException")
            => (attempts = 2 /\ attempts' = 3 /\ pc \in LifeLabels /\ pc' \notin LifeLabels)]_vars

\* C3 witness: the credentials POST failed three times and the failure was raised
PostRetriesExhausted ==
    /\ outcome = "raised"
    /\ err = "RequestException"
    /\ attempts = 3
    /\ calls # << >>
    /\ calls[Len(calls)] = "s3"

\* C4: a failing login step does not make the construction raise: the
\* client exists, without API cookies.
LoginFailureIsNotFatal == ~(op = "construct" /\ outcome = "raised")

\* C5: when step 1 answers with the "service down" Location, no later login
\* step is made, nothing is raised by _login, and the cookie session is
\* empty once the client is constructed.
PortalDownLeavesSessionEmpty ==
    portalDown =>
        /\ \A i \in DOMAIN calls: calls[i] \notin {"s2", "s3", "s4", "s5", "s6", "s7"}
        /\ pc = "idle" => cookies = EmptyDict

\* C6: once self.terms holds a fetched mapping, a _get_term call makes no
\* request and returns that mapping, whatever the mapping is.
TermsMemoized ==
    op = "_get_term" =>
        /\ calls = << >>
        /\ outcome = "returned" => result = terms[1]

\* the positions of the wanted blocks of a document, in document order
WantedPositions(d) == SelectSeq([i \in 1..Len(d) |-> i], LAMBDA i: Wanted(d[i]))

\* C7: get_class_data returns exactly one record per wanted block, in
\* document order.
OneRecordPerWantedBlock ==
    (op = "get_class_data" /\ outcome = "returned") =>
        /\ recpos = WantedPositions(doc)
        /\ \A j \in DOMAIN class_data: class_data[j].section_code = doc[recpos[j]].key

ParsesAll(attrs) == \A i \in 1..4: Parses(attrs, SeatAttrs[i])

\* C8: a wanted block with a non-integer seat attribute that the loop has
\* come to has its record, with "Err/Err" texts and availability -1: the
\* batch does not stop at it.
BadSeatsStillEmitted ==
    \A i \in 1..Len(doc):
        (i <= idx + 1 /\ Wanted(doc[i]) /\ ~ParsesAll(doc[i].attrs)) =>
            \E j \in DOMAIN recpos:
                /\ recpos[j] = i
                /\ class_data[j].waitlist = "Err/Err"
                /\ class_data[j].seats = "Err/Err"
                /\ class_data[j].available = -1

\* C9: the record of a block whose seat attributes are integers has
\* available = 1 exactly when ws > 0 or os > 0 (0 otherwise), seats text
\* "(me - os)/me" and waitlist text "(wc - ws)/wc".
SeatRule ==
    \A j \in DOMAIN class_data:
        LET a == doc[recpos[j]].attrs
            r == class_data[j]
            wc == IntAttr(a, "wc")
            ws == IntAttr(a, "ws")
            me == IntAttr(a, "me")
            os == IntAttr(a, "os")
        IN ParsesAll(a) =>
            /\ r.available \in {0, 1}
            /\ r.available = 1 <=> (ws > 0 \/ os > 0)
            /\ r.seats = ToString(me - os) \o "/" \o ToString(me)
            /\ r.waitlist = ToString(wc - ws) \o "/" \o ToString(wc)

\* C9 witness: the record of a block with wc 5, ws 2, me 30, os 0, open by
\* its waitlist alone
WaitlistOnlyRecord ==
    \E j \in DOMAIN class_data:
        /\ doc[recpos[j]].attrs = [wc |-> "5", ws |-> "2", me |-> "30", os |-> "0"]
        /\ class_data[j].available = 1
        /\ class_data[j].waitlist = "3/5"
        /\ class_data[j].seats = "30/30"

TryEnrollTrueOn2xx ==
    /\ \A i \in DOMAIN enrollLog:
        enrollLog[i].ok = (enrollLog[i].status_code \in 200..299 /\ ~enrollLog[i].failed)
    /\ (op = "try_enroll" /\ outcome = "returned") =>
        /\ enrollLog # << >>
        /\ result = enrollLog[Len(enrollLog)].ok

\* max_tries of the backoff wrappers of the guarded calls
session_max_tries == 2

\* C12: an operation makes a bounded number of requests.  A request is
\* attempted at most 3 times and a guarded call at most 2 times; apart from
\* these retries get_class_data makes its two requests and at most two
\* more for each block of the document, try_enroll two requests and
\* get_enrollment_status one.  After the third failed attempt the
\* RequestException is raised to the caller and the operation is over, and
\* after a session-expired response no request is made again.
RequestsBounded ==
    /\ attempts <= max_tries
    /\ pc \in ClassLabels => attempts < max_tries
    /\ markers <= session_max_tries
    /\ op = "get_class_data" =>
        /\ NumCalls("_get_colleges") <= session_max_tries
        /\ NumCalls("class_data") <= 1
        /\ NumCalls("get_enrollment_status") <= Len(doc)
        /\ NumCalls("enroll_options") <= Len(doc)
        /\ NumCalls("perform_action") <= Len(doc)
    /\ op = "get_enrollment_status" => Len(calls) <= session_max_tries
    /\ op = "try_enroll" => Len(calls) <= 2
    /\ (outcome = "raised" /\ err = "RequestException") =>
        (attempts = max_tries /\ pc = "idle")
    /\ markers >= 1 => pc \notin ClassLabels

\* C12 witness: in get_class_data the perform-action request of a block
\* failed three times after three answered requests, and the failure was
\* raised
LoopRequestExhausted ==
    /\ op = "get_class_data"
    /\ outcome = "raised"
    /\ err = "RequestException"
    /\ attempts = max_tries
    /\ Len(calls) >= 5
    /\ calls[Len(calls)] = "perform_action"

\* C13: a criteria page without the "return EE.initEntrance(" marker, or
\* with text after it that is not JSON, makes _get_term give an empty
\* mapping: the parsing raises nothing.
TermParseNeverRaises == ~(outcome = "raised" /\ err \in {"IndexError", "JSONDecodeError"})

\* the requests of a complete _login, in the order of the code
LoginSequence == <<"_get_session_id", "s1", "s2", "s3", "s4", "s5", "s6", "s7">>

IsPrefix(p, q) == Len(p) <= Len(q) /\ p = SubSeq(q, 1, Len(p))

\* C14: the requests of the login are made in the order of its steps.  The
\* requests made so far are the first steps of the sequence, each once, or
\* step 1 alone when it answered "service down"; a step's request starts
\* from the state of the step before it, on that step's response.
LoginStrictlySequential ==
    /\ [](op = "construct" =>
            \/ IsPrefix(calls, LoginSequence \o <<"_get_term">>)
            \/ portalDown /\ IsPrefix(calls, <<"_get_session_id", "s1", "_get_term">>))
    /\ [][(pc' \in LoginLabels /\ pc' # pc) =>
            \/ pc = "new" /\ pc' = "_get_session_id"
            \/ \E i \in 1..(Len(LoginSequence) - 1):
                 /\ pc = LoginSequence[i]
                 /\ pc' = LoginSequence[i + 1]
                 /\ calls' = Append(calls, pc')
                 /\ attempts' = 0]_vars
    /\ [](portalDown => \A i \in DOMAIN calls: calls[i] \notin {"s2", "s3", "s4", "s5", "s6", "s7"})

\* C14 witness: a login that made every step, followed by the criteria page
CompleteLogin ==
    /\ op = "construct"
    /\ outcome = "returned"
    /\ ~portalDown
    /\ calls = LoginSequence \o <<"_get_term">>

\* cookies `new` are cookies `old` merged with cookies of value tag
Merged(old, new, tag) ==
    /\ DOMAIN old \subseteq DOMAIN new
    /\ \A k \in DOMAIN new: new[k] = tag \/ (k \in DOMAIN old /\ new[k] = old[k])

\* C15: after the response of step 4 the session holds the cookies of that
\* response and no others: no cookie of steps 1 to 3 is left, then or
\* later.  The responses of steps 1, 2, 3 and 5 are merged: the cookies
\* they do not return are kept and those they return take the new value.
Step4ReplacesOthersMerge ==
    /\ [](pc = "s5" => \A k \in DOMAIN cookies: cookies[k] = "s4")
    /\ [](pc \in {"s6", "s7"} => \A k \in DOMAIN cookies: cookies[k] \notin {"s1", "s2", "s3"})
    /\ [][(pc \in {"s1", "s2", "s3", "s5"}) => Merged(cookies, cookies', pc)]_vars
    /\ [][(pc = "s4" /\ pc' = "s5") => \A k \in DOMAIN cookies': cookies'[k] = "s4"]_vars

\* C15 witness: after step 5, a session with one cookie of step 4 and one
\* merged in by step 5
ReplacedThenMerged ==
    /\ pc = "s6"
    /\ cookies = [JSESSIONID |-> "s4", PS_TOKEN |-> "s5"]

\* C16: in get_class_data, an enrolment is attempted for a wanted block of
\* availability 1 only, after the enrollment-status lookup of that block
\* answered "not enrolled": the lookup request comes right before the
\* enroll-options request, which comes right before the perform-action
\* request.  A record has enrolled = TRUE exactly when the enrolment of its
\* block was attempted and gave True.
EnrollOnlyOpenAndNotEnrolled ==
    op = "get_class_data" =>
        /\ \A i \in DOMAIN enrollLog:
            LET p == enrollLog[i].pos
            IN /\ Wanted(doc[p])
               /\ Seats(doc[p].attrs).available = 1
               /\ \E j \in DOMAIN statusLog: statusLog[j] = [pos |-> p, enrolled |-> FALSE]
        /\ pc \in {"enroll_options", "perform_action"} =>
            /\ Wanted(doc[idx + 1])
            /\ Seats(doc[idx + 1].attrs).available = 1
            /\ statusLog # << >>
            /\ statusLog[Len(statusLog)] = [pos |-> idx + 1, enrolled |-> FALSE]
        /\ \A i \in DOMAIN calls:
            /\ calls[i] = "enroll_options" => (i > 1 /\ calls[i - 1] = "get_enrollment_status")
            /\ calls[i] = "perform_action" => (i > 1 /\ calls[i - 1] = "enroll_options")
        /\ \A j \in DOMAIN class_data:
            class_data[j].enrolled =
                (\E i \in DOMAIN enrollLog: enrollLog[i].pos = recpos[j] /\ enrollLog[i].ok)

\* C16 witness: a returned batch with the record of a block that was
\* enrolled in and the record of a block whose enrolment failed
EnrolledAndRefusedRecords ==
    /\ op = "get_class_data"
    /\ outcome = "returned"
    /\ \E j, k \in DOMAIN class_data:
        /\ class_data[j].enrolled
        /\ ~class_data[k].enrolled
        /\ \E i \in DOMAIN enrollLog: enrollLog[i].pos = recpos[k] /\ ~enrollLog[i].ok

\* C17: the perform-action request of try_enroll is made on the response
\* of its enroll-options request, and on nothing else.  When the
\* enroll-options request fails three times the RequestException leaves
\* try_enroll: no perform-action request follows and True is not returned.
OptionsBeforePerform ==
    /\ [](op \in {"try_enroll", "get_class_data"} =>
            \A i \in DOMAIN calls:
                calls[i] = "perform_action" => (i > 1 /\ calls[i - 1] = "enroll_options"))
    /\ [][(pc' = "perform_action" /\ pc # "perform_action") =>
            /\ pc = "enroll_options"
            /\ attempts < max_tries
            /\ outcome' = "none"]_vars
    /\ [][(pc = "enroll_options" /\ pc' # "perform_action") =>
            \/ pc' = "enroll_options" /\ attempts' = attempts + 1 /\ calls' = calls
            \/ /\ pc' = "idle"
               /\ outcome' = "raised"
               /\ err' = "RequestException"
               /\ calls' = calls
               /\ result' = None
               /\ enrollLog' = enrollLog
               /\ class_data' = class_data]_vars

\* C17 witness: the caller's try_enroll ended by the RequestException of
\* its enroll-options request
OptionsRequestExhausted ==
    /\ op = "try_enroll"
    /\ outcome = "raised"
    /\ err = "RequestException"
    /\ calls = <<"enroll_options">>
    /\ result = None
    /\ enrollLog = << >>

\* C20: the result of _nWindow is fixed by the time of the call: t is the
\* number of whole minutes since the epoch, less a multiple of 1000, and
\* lies in 0..999; e is the sum of the remainders of t by 3, 39 and 42 and
\* lies in 0..81; at second 12000 they are 200 and 42.
WindowOfTime ==
    /\ op = "_nWindow" =>
        LET minutes == CHOOSE m \in 0..(time \div 60): 60 * m <= time /\ time < 60 * (m + 1)
            t == result.t
            e == result.e
        IN /\ DOMAIN result = {"t", "e"}
           /\ t \in 0..999
           /\ \E q \in 0..(minutes \div 1000): minutes = 1000 * q + t
           /\ e = (t % 3) + (t % 39) + (t % 42)
           /\ e \in 0..81
    /\ (op = "_nWindow" /\ time = 12000) => result = [t |-> 200, e |-> 42]

\* C20, amended: as above, but at second 12000 t is 200 and e is
\* 2 + 5 + 32 = 39.
WindowOfTimeAmended ==
    /\ op = "_nWindow" =>
        LET minutes == CHOOSE m \in 0..(time \div 60): 60 * m <= time /\ time < 60 * (m + 1)
            t == result.t
            e == result.e
        IN /\ DOMAIN result = {"t", "e"}
           /\ t \in 0..999
           /\ \E q \in 0..(minutes \div 1000): minutes = 1000 * q + t
           /\ e = (t % 3) + (t % 39) + (t % 42)
           /\ e \in 0..81
    /\ (op = "_nWindow" /\ time = 12000) => result = [t |-> 200, e |-> 39]

\* C20 witness: the call at second 12000
WindowAt12000 ==
    /\ op = "_nWindow"
    /\ time = 12000
    /\ result = [t |-> 200, e |-> 39]

\* C19: the driver calls get_class_data for a term only when the criteria
\* page gave that term with enrollable true: never for a term whose
\* enrollable is false or missing.
FetchOnlyEnrollable ==
    \A i \in DOMAIN fetched:
        LET term_id == fetched[i]
        IN /\ term_id \in DOMAIN page_json
           /\ "enrollable" \in DOMAIN page_json[term_id]
           /\ page_json[term_id].enrollable = TRUE
           /\ main_terms[term_id].enrollable = TRUE

\* C19 witness: the loop is over, it fetched one term and passed over a
\* term that the criteria page gave without enrollable
FetchedOneSkippedOne ==
    /\ pc = "main_notify"
    /\ Len(fetched) = 1
    /\ \E term_id \in DOMAIN page_json:
        /\ "enrollable" \notin DOMAIN page_json[term_id]
        /\ \A i \in DOMAIN fetched: fetched[i] # term_id

\* the positions of timeblock_ids whose id is in the map
Resolved == {i \in DOMAIN timeblock_ids : timeblock_ids[i] \in DOMAIN timeblocks}

\* the formatted range and the day of the timeblock at position i
RangeAt(i) ==
    LET attrs == timeblocks[timeblock_ids[i]]
    IN time_str(IntAttr(attrs, "t1"), IntAttr(attrs, "t2"), hour_12)
DayAt(i) == get_day(Get(timeblocks[timeblock_ids[i]], "day", ""))

DayRank(day) == CHOOSE k \in DOMAIN day_order: day_order[k] = day

\* the ways to list the days D once each, Mon to Sun and then Unk
DayListings(D) ==
    {l \in [1..Cardinality(D) -> D] :
        \A i, j \in DOMAIN l: i < j => DayRank(l[i]) < DayRank(l[j])}

\* the line of the range r: the days that have it, then the range
LinesOf(r) ==
    {Join(l, ", ") \o ": " \o r :
        l \in DayListings({DayAt(i) : i \in {k \in Resolved : RangeAt(k) = r}})}

\* C18: _build_time passes over the ids that are not in the map.  Its text
\* has one line for each distinct formatted range of the other ids, in some
\* order and joined by newlines; a line lists the distinct days of its
\* range once each, separated by ", " and ordered Mon to Sun and then Unk,
\* before ": " and the range.  The text is "TBA" exactly when no id is in
\* the map.
TimeTextGroupsDays ==
    (op = "_build_time" /\ outcome = "returned") =>
        LET ranges == {RangeAt(i) : i \in Resolved}
        IN /\ result = "TBA" <=> Resolved = {}
           /\ Resolved # {} =>
                \E o \in Orders(ranges):
                    \E lines \in [DOMAIN o -> UNION {LinesOf(r) : r \in ranges}]:
                        /\ \A k \in DOMAIN o: lines[k] \in LinesOf(o[k])
                        /\ result = Join(lines, "\n")

\* C18 witness: Monday and Wednesday blocks from 540 to 615, listed
\* Wednesday first and twice, with an id that is not in the map
MonWedOneLine ==
    /\ op = "_build_time"
    /\ outcome = "returned"
    /\ Len(timeblock_ids) = 3
    /\ \E i \in DOMAIN timeblock_ids: timeblock_ids[i] \notin DOMAIN timeblocks
    /\ timeblock_ids[1] \in DOMAIN timeblocks
    /\ Get(timeblocks[timeblock_ids[1]], "day", "") = "3"
    /\ result = "Mon, Wed: 09:00 AM to 10:15 AM"

\* C21: once a login has made all its steps, the session is the cookies of
\* the step-6 response, overridden by those of the session-id request,
\* overridden by those of the criteria-page request of step 7: no cookie
\* that only steps 1 to 5 gave is left, although the session held them
\* until step 7.  The response of step 7 sets the session to that and to
\* nothing else.
FinalSessionLayers ==
    /\ []((op = "construct" /\ calls = LoginSequence \o <<"_get_term">>) =>
            /\ \E c \in CookieJars("s7"): cookies = c @@ session_cookies @@ s6_cookies
            /\ \A k \in DOMAIN cookies: cookies[k] \notin {"s1", "s2", "s3", "s4", "s5"})
    /\ [][(pc = "s7" /\ pc' = "_get_term") =>
            /\ \E c \in CookieJars("s7"): cookies' = c @@ session_cookies @@ s6_cookies
            /\ session_cookies' = session_cookies
            /\ s6_cookies' = s6_cookies]_vars

\* C21 witness: a complete login whose step-6 response gave both cookies,
\* whose session-id request gave JSESSIONID and whose step 7 gave none
SessionIdOverStep6 ==
    /\ op = "construct"
    /\ calls = LoginSequence \o <<"_get_term">>
    /\ s6_cookies = [JSESSIONID |-> "s6", PS_TOKEN |-> "s6"]
    /\ session_cookies = [JSESSIONID |-> "sid"]
    /\ cookies = [JSESSIONID |-> "sid", PS_TOKEN |-> "s6"]

====
